---------------------------- MODULE Spec2Model ----------------------------
(***************************************************************************)
(* Model of the weatherbox service (package models, weatherboxService-     *)
(* Service): the start/stop/Reconfigure/Close control surface, the polling *)
(* goroutine startWeatherVizService and the classification done by         *)
(* visualizeWeather / getCondition / handleWeatherCondition.               *)
(*                                                                         *)
(* Control calls are made by caller threads; each call advances statement  *)
(* by statement (pc[t]), because the service holds no mutex and a call     *)
(* blocks in ledWg.Wait() while the polling goroutine keeps running.       *)
(* Spec issues the calls one at a time from one thread, SpecConc lets the  *)
(* calls of several threads overlap.                                       *)
(*                                                                         *)
(* Three units are exercised on their own, each in a specification that    *)
(* leaves the service idle: Config.Validate (SpecValidate), the weatherviz *)
(* model's DoCommand (SpecWeatherviz) and AnimationList.NextAnimation      *)
(* (SpecAnimation).                                                        *)
(*                                                                         *)
(* SpecCycles runs the sessions of start and stop with a history of the    *)
(* key of each loop's previous cycle (lastKey), which the code does not    *)
(* keep.                                                                   *)
(***************************************************************************)
EXTENDS Integers, Sequences, FiniteSets, TLC

\* ------------------------------------------------------------------ bounds
\* session contexts (and so polling goroutines) created in one behaviour
MaxSessions == 2
\* caller threads of SpecConc
NumThreads == 2
\* the refresh intervals of the configurations validated: -MaxInterval..MaxInterval
MaxInterval == 3
\* the longest AnimationList
MaxAnimLen == 3
\* calls of NextAnimation in one behaviour
MaxCalls == 6

\* --------------------------------------------------------------- constants
hot == 65

Threads == 1..NumThreads
Gids == 1..MaxSessions

\* nil: the zero value of a handle, a context or a cancel function
NoHandle == "nil"
Nil == 0

\* what the dependencies of a Reconfigure can resolve to
Sensors == {"sensorA", "sensorB"}
Actuators == {"ledA", "ledB"}
\* the refresh-interval values of the configurations tried
Intervals == {1, 2}

VARIABLES
    weatherSensor,    \* s.weatherSensor: a sensor handle or NoHandle
    ledComponent,     \* s.ledComponent: an actuator handle or NoHandle
    refreshInterval,  \* s.refreshInterval, in seconds
    ledCancelFunc,    \* s.ledCancelFunc: Nil or the context it cancels
    ledUpdateCtx,     \* s.ledUpdateCtx: Nil or a session context
    ledWg,            \* s.ledWg: the WaitGroup's counter
    rootCancelled,    \* whether s.cancelFunc() has been called (s.cancelCtx done)
    cancelled,        \* the session contexts whose cancel function was called
    nextCtx,          \* session contexts created so far
    gor,              \* the polling goroutines, by launch order
    nGor,             \* goroutines launched so far
    pc,               \* each caller thread's position in its control call
    args,             \* each caller thread's call arguments
    resp,             \* what each thread's last completed call returned
    entry,            \* the service fields as they were when the call in progress began
    crashed,          \* the process has panicked
    validation,       \* a Config and what Validate returned for it
    weatherviz,       \* the weatherviz model's DoCommand call and what it did
    animationList,    \* an AnimationList, its calls counted
    lastKey           \* history: the key each loop's previous cycle classified to

svc == <<weatherSensor, ledComponent, refreshInterval, ledCancelFunc,
         ledUpdateCtx, ledWg>>
ctxs == <<rootCancelled, cancelled, nextCtx>>
vars == <<weatherSensor, ledComponent, refreshInterval, ledCancelFunc,
          ledUpdateCtx, ledWg, rootCancelled, cancelled, nextCtx, gor, nGor,
          pc, args, resp, entry, crashed,
          validation, weatherviz, animationList, lastKey>>
\* the units exercised on their own
units == <<validation, weatherviz, animationList>>

NoArgs == [cfgOk |-> TRUE, sensor |-> NoHandle, led |-> NoHandle, interval |-> 0]
NoEntry == [sensor |-> NoHandle, led |-> NoHandle, interval |-> 0, cancel |-> Nil]

\* ctx.Err() != nil / <-ctx.Done() ready: the context or the root it derives from
\* has been cancelled
CtxDone(c) == rootCancelled \/ c \in cancelled

Live(g) == gor[g].pc \notin {"none", "done"}
LiveGoroutines == {g \in Gids : Live(g)}

\* ---------------------------------------------------------- classification
\* The colours of the palette, by name.
generateSequence(colors) ==
    [i \in 0..2 |->
        [j \in 1..Len(colors) |-> colors[((i + (j - 1)) % Len(colors)) + 1]]]

\* The catalog: condition key -> the three rotated sequences sent to the actuator.
animationMap ==
    [k \in {"sunny/hot", "sunny/cold", "cloudy/hot", "cloudy/cold",
            "rainy/hot", "none", "all"} |->
        CASE k = "sunny/hot"   -> generateSequence(<<"orange", "red", "magenta">>)
          [] k = "sunny/cold"  -> generateSequence(<<"orange", "purple", "blue">>)
          [] k = "cloudy/hot"  -> generateSequence(<<"white", "magenta", "red">>)
          [] k = "cloudy/cold" -> generateSequence(<<"white", "purple", "blue">>)
          [] k = "rainy/hot"   -> generateSequence(<<"cyan", "magenta", "red">>)
          [] k = "none"        -> generateSequence(<<"green", "magenta", "red">>)
          [] k = "all"         -> generateSequence(<<"magenta", "purple", "orange">>)]

SunnyCodes == {1000, 1003}
CloudyCodes == {1006, 1009, 1030, 1135, 1147}
RainyCodes == {1063, 1066, 1069, 1072, 1087, 1550, 1153,
               1168, 1171, 1180, 1183, 1186, 1189, 1192, 1195,
               1198, 1201, 1204, 1207, 1240, 1243, 1246, 1249,
               1252, 1273, 1276, 1279, 1282}

getCondition(code) ==
    IF code \in SunnyCodes THEN "sunny"
    ELSE IF code \in CloudyCodes THEN "cloudy"
    ELSE IF code \in RainyCodes THEN "rainy"
    ELSE "none"

\* A field of a sensor reading: absent, present with a float64 value, or present
\* with a value of another type.
Absent == [kind |-> "absent", val |-> 0]
NotFloat == [kind |-> "string", val |-> 0]
Float(v) == [kind |-> "float", val |-> v]

\* The condition codes and temperatures the sensor is let to report: a code of
\* every sky state, one the table does not list, and temperatures on both sides
\* of the threshold and on it.
CodeVals == {1000, 1006, 1063, 1234}
TempVals == {33, 50, 65, 70}
Readings ==
    [code : {Absent, NotFloat} \cup {Float(c) : c \in CodeVals},
     outside_f : {Absent, NotFloat} \cup {Float(v) : v \in TempVals}]

\* What Readings returns: an error or a reading.
NoRes == [err |-> TRUE, reading |-> [code |-> Absent, outside_f |-> Absent]]
SensorResults == {NoRes} \cup {[err |-> FALSE, reading |-> r] : r \in Readings}

\* a polling goroutine that was not launched: no context, no ticker, no call in
\* flight, no locals, nothing logged. logged is the line the last finished
\* cycle ended with (each cycle ends with one), kept until the next cycle's
\* sensor read.
NoGor == [pc |-> "none", ctx |-> Nil, interval |-> 0, handle |-> NoHandle,
          res |-> NoRes, key |-> "", logged |-> ""]

\* visualizeWeather from the result of Readings on: the key it hands to
\* handleWeatherCondition, or "" when it logs an error and returns.
visualizeWeatherKey(res) ==
    IF res.err THEN ""
    ELSE IF res.reading.code.kind = "absent" THEN ""
    ELSE IF res.reading.code.kind # "float" THEN ""
    ELSE IF res.reading.outside_f.kind = "absent" THEN ""
    ELSE IF res.reading.outside_f.kind # "float" THEN ""
    ELSE getCondition(res.reading.code.val) \o "/" \o
         (IF res.reading.outside_f.val > hot THEN "cold" ELSE "hot")

\* the error visualizeWeather logs before it returns without a call of
\* handleWeatherCondition
visualizeWeatherLog(res) ==
    IF res.err THEN "error reading weather sensor"
    ELSE IF res.reading.code.kind = "absent"
      THEN "no condition reading from weather sensor"
    ELSE IF res.reading.code.kind # "float"
      THEN "code reading from weather sensor is not a float"
    ELSE IF res.reading.outside_f.kind = "absent"
      THEN "no outside temperature reading from weather sensor"
    ELSE IF res.reading.outside_f.kind # "float"
      THEN "outside temperature reading from weather sensor is not a float"
    ELSE ""

\* strings.ToLower on the keys visualizeWeather can build: they hold no upper
\* case letter.
ToLower(s) == s

\* handleWeatherCondition up to its actuator call: whether the key is in the
\* catalog, so that a command is sent.
handleWeatherConditionSends(condition) ==
    ToLower(condition) \in DOMAIN animationMap

\* ------------------------------------------------------------------- units
\* Config as the JSON gives it: any integer for the interval, any string for the
\* two names
Configs ==
    [RefreshInterval : -MaxInterval..MaxInterval,
     WeatherSensor : {""} \cup Sensors,
     LedComponent : {""} \cup Actuators]

\* Config.Validate: the error it returns, "nil" when it returns the dependencies
Validate(cfg) ==
    IF cfg.RefreshInterval = 0
      THEN "expected \"refresh-interval\" attribute for weather module"
    ELSE IF cfg.WeatherSensor = ""
      THEN "expected \"weather-sensor\" attribute for weather module"
    ELSE IF cfg.LedComponent = ""
      THEN "expected \"led-component\" attribute for weather module"
    ELSE "nil"

\* the configuration the service of Init was built from, not validated yet
NoValidation ==
    [cfg |-> [RefreshInterval |-> 1, WeatherSensor |-> "sensorA",
              LedComponent |-> "ledA"],
     called |-> FALSE, err |-> "nil"]

\* the commands given to the weatherviz model, by the keys they carry
Cmds == SUBSET {"visualize", "state"}

\* the weatherviz model with no DoCommand made: reads and commands count the
\* sensor reads and actuator commands of the last call, sent is the animation
\* type it sent, err what it returned ("none": nothing returned yet)
NoViz == [pc |-> "idle", cmd |-> {}, readings |-> NoRes, reads |-> 0,
          commands |-> 0, sent |-> "", err |-> "none"]

\* the steps an AnimationList is made of, by name
Steps == {"step0", "step1", "step2"}
AnimationLists == UNION {[1..n -> Steps] : n \in 0..MaxAnimLen}

\* an AnimationList with no step, never called: calls counts the calls made,
\* returned is what the last one returned
NoList == [Animations |-> <<>>, index |-> 0, calls |-> 0, returned |-> "",
           panicked |-> FALSE]

\* -------------------------------------------------------------------- Init
\* The state newWeatherboxServiceService returns: its Reconfigure has succeeded,
\* no session exists.
ServiceInit ==
    /\ weatherSensor = "sensorA"
    /\ ledComponent = "ledA"
    /\ refreshInterval = 1
    /\ ledCancelFunc = Nil
    /\ ledUpdateCtx = Nil
    /\ ledWg = 0
    /\ rootCancelled = FALSE
    /\ cancelled = {}
    /\ nextCtx = 0
    /\ gor = [g \in Gids |-> NoGor]
    /\ nGor = 0
    /\ pc = [t \in Threads |-> "idle"]
    /\ args = [t \in Threads |-> NoArgs]
    /\ resp = [t \in Threads |-> "none"]
    /\ entry = [t \in Threads |-> NoEntry]
    /\ crashed = FALSE
    /\ lastKey = [g \in Gids |-> ""]

\* the service built, the units untouched
Init ==
    /\ ServiceInit
    /\ validation = NoValidation
    /\ weatherviz = NoViz
    /\ animationList = NoList

\* ----------------------------------------------------------- control calls
\* the fields a Reconfigure may touch, as they are now
Snapshot == [sensor |-> weatherSensor, led |-> ledComponent,
             interval |-> refreshInterval, cancel |-> ledCancelFunc]

\* A call arrives on thread t: op is its first statement, a its arguments, e
\* what is remembered of the state it began in. resp[t] keeps the previous call's
\* response until this one returns.
Begin(t, op, a, e) ==
    /\ ~crashed
    /\ UNCHANGED <<units, lastKey>>
    /\ pc[t] = "idle"
    /\ pc' = [pc EXCEPT ![t] = op]
    /\ args' = [args EXCEPT ![t] = a]
    /\ entry' = [entry EXCEPT ![t] = e]
    /\ UNCHANGED <<svc, ctxs, gor, nGor, resp, crashed>>

\* thread t's call returns r: its arguments and locals are gone
Return(t, r) ==
    /\ pc' = [pc EXCEPT ![t] = "idle"]
    /\ resp' = [resp EXCEPT ![t] = r]
    /\ entry' = [entry EXCEPT ![t] = NoEntry]
    /\ args' = [args EXCEPT ![t] = NoArgs]

\* thread t's call goes on to statement l
Goto(t, l) ==
    /\ pc' = [pc EXCEPT ![t] = l]
    /\ UNCHANGED <<args, resp, entry>>

\* calls of start in progress that have not yet created their context
StartsPending == {u \in Threads : pc[u] \in {"start_check", "start_ctx"}}

\* DoCommand {state: start} arrives
BeginStart(t) ==
    /\ nextCtx + Cardinality(StartsPending) < MaxSessions
    /\ Begin(t, "start_check", NoArgs, NoEntry)

\* start with the already-running check left out
StartCheck_NoGuard(t) ==
    /\ ~crashed
    /\ UNCHANGED <<units, lastKey>>
    /\ pc[t] = "start_check"
    /\ Goto(t, "start_ctx")
    /\ UNCHANGED <<svc, ctxs, gor, nGor, crashed>>

\* if s.ledCancelFunc != nil { return warning }
StartCheck(t) ==
    /\ ~crashed
    /\ UNCHANGED <<units, lastKey>>
    /\ pc[t] = "start_check"
    /\ IF ledCancelFunc # Nil
         THEN Return(t, "already running")
         ELSE Goto(t, "start_ctx")
    /\ UNCHANGED <<svc, ctxs, gor, nGor, crashed>>

\* s.ledUpdateCtx, s.ledCancelFunc = context.WithCancel(s.cancelCtx)
StartCtx(t) ==
    /\ ~crashed
    /\ UNCHANGED <<units, lastKey>>
    /\ pc[t] = "start_ctx"
    /\ nextCtx' = nextCtx + 1
    /\ ledUpdateCtx' = nextCtx + 1
    /\ ledCancelFunc' = nextCtx + 1
    /\ Goto(t, "start_add")
    /\ UNCHANGED <<weatherSensor, ledComponent, refreshInterval, ledWg,
                   rootCancelled, cancelled, gor, nGor, crashed>>

\* s.ledWg.Add(1)
StartAdd(t) ==
    /\ ~crashed
    /\ UNCHANGED <<units, lastKey>>
    /\ pc[t] = "start_add"
    /\ ledWg' = ledWg + 1
    /\ Goto(t, "start_go")
    /\ UNCHANGED <<weatherSensor, ledComponent, refreshInterval, ledCancelFunc,
                   ledUpdateCtx, ctxs, gor, nGor, crashed>>

\* go func() { ... }(); return started
StartGo(t) ==
    /\ ~crashed
    /\ UNCHANGED <<units, lastKey>>
    /\ pc[t] = "start_go"
    /\ nGor' = nGor + 1
    /\ gor' = [gor EXCEPT ![nGor + 1] = [NoGor EXCEPT !.pc = "go"]]
    /\ Return(t, "started")
    /\ UNCHANGED <<svc, ctxs, crashed>>

\* DoCommand {state: stop} arrives
BeginStop(t) == Begin(t, "stop_check", NoArgs, NoEntry)

\* stop with the nothing-to-stop check left out
StopCheck_NoGuard(t) ==
    /\ ~crashed
    /\ UNCHANGED <<units, lastKey>>
    /\ pc[t] = "stop_check"
    /\ Goto(t, "stop_cancel")
    /\ UNCHANGED <<svc, ctxs, gor, nGor, crashed>>

\* if s.ledCancelFunc == nil { return warning }
StopCheck(t) ==
    /\ ~crashed
    /\ UNCHANGED <<units, lastKey>>
    /\ pc[t] = "stop_check"
    /\ IF ledCancelFunc = Nil
         THEN Return(t, "no currently running service to stop")
         ELSE Goto(t, "stop_cancel")
    /\ UNCHANGED <<svc, ctxs, gor, nGor, crashed>>

\* s.ledCancelFunc(): calling a nil func panics
StopCancel(t) ==
    /\ ~crashed
    /\ UNCHANGED <<units, lastKey>>
    /\ pc[t] = "stop_cancel"
    /\ IF ledCancelFunc = Nil
         THEN /\ crashed' = TRUE
              /\ UNCHANGED <<cancelled, pc, args, resp, entry>>
         ELSE /\ cancelled' = cancelled \cup {ledCancelFunc}
              /\ Goto(t, "stop_wait")
              /\ UNCHANGED crashed
    /\ UNCHANGED <<svc, rootCancelled, nextCtx, gor, nGor>>

\* stop that signals the cancellation and does not join
StopWait_NoJoin(t) ==
    /\ ~crashed
    /\ UNCHANGED <<units, lastKey>>
    /\ pc[t] = "stop_wait"
    /\ Goto(t, "stop_clear")
    /\ UNCHANGED <<svc, ctxs, gor, nGor, crashed>>

\* s.ledWg.Wait() returns once the counter is zero
StopWait(t) ==
    /\ ~crashed
    /\ UNCHANGED <<units, lastKey>>
    /\ pc[t] = "stop_wait"
    /\ ledWg = 0
    /\ Goto(t, "stop_clear")
    /\ UNCHANGED <<svc, ctxs, gor, nGor, crashed>>

\* s.ledCancelFunc = nil; s.ledUpdateCtx = nil; return stopped
StopClear(t) ==
    /\ ~crashed
    /\ UNCHANGED <<units, lastKey>>
    /\ pc[t] = "stop_clear"
    /\ ledCancelFunc' = Nil
    /\ ledUpdateCtx' = Nil
    /\ Return(t, "stopped")
    /\ UNCHANGED <<weatherSensor, ledComponent, refreshInterval, ledWg, ctxs,
                   gor, nGor, crashed>>

\* DoCommandOther, but any state value other than start is taken for a stop of
\* the session
DoCommandOther_StopsSession(t) ==
    /\ ~crashed
    /\ UNCHANGED <<units, lastKey>>
    /\ pc[t] = "idle"
    /\ resp' = [resp EXCEPT ![t] = "empty"]
    /\ cancelled' = IF ledCancelFunc = Nil THEN cancelled
                                          ELSE cancelled \cup {ledCancelFunc}
    /\ UNCHANGED <<pc, args, entry>>
    /\ UNCHANGED <<svc, rootCancelled, nextCtx, gor, nGor, crashed>>

\* DoCommand without a "state" key, or with another state value: return {}, nil
DoCommandOther(t) ==
    /\ ~crashed
    /\ UNCHANGED <<units, lastKey>>
    /\ pc[t] = "idle"
    /\ resp' = [resp EXCEPT ![t] = "empty"]
    /\ UNCHANGED <<pc, args, entry>>
    /\ UNCHANGED <<svc, ctxs, gor, nGor, crashed>>

\* ------------------------------------------------------------- Reconfigure
\* The arguments of a Reconfigure: whether the raw config converts, what the two
\* dependency names resolve to (NoHandle: not among the dependencies), and the
\* refresh interval.
\* One configuration that does not convert, one whose sensor does not resolve,
\* and every sensor with an actuator that resolves or not: what follows the first
\* failure is never read.
ReconfigureArgs ==
    {[cfgOk |-> FALSE, sensor |-> NoHandle, led |-> NoHandle, interval |-> 1],
     [cfgOk |-> TRUE, sensor |-> NoHandle, led |-> NoHandle, interval |-> 1]}
    \cup [cfgOk : {TRUE}, sensor : Sensors, led : {NoHandle}, interval : {1}]
    \cup [cfgOk : {TRUE}, sensor : Sensors, led : Actuators, interval : Intervals]

BeginReconfigure(t) == \E a \in ReconfigureArgs : Begin(t, "rc_config", a, Snapshot)

\* config, err := resource.NativeConfig[*Config](conf); if err != nil { return err }
ReconfigureConfig(t) ==
    /\ ~crashed
    /\ UNCHANGED <<units, lastKey>>
    /\ pc[t] = "rc_config"
    /\ IF ~args[t].cfgOk
         THEN Return(t, "error: config")
         ELSE Goto(t, "rc_sensor")
    /\ UNCHANGED <<svc, ctxs, gor, nGor, crashed>>

\* s.weatherSensor, err = sensor.FromDependencies(deps, config.WeatherSensor):
\* the field is assigned whatever came back, nil with the error
ReconfigureSensor(t) ==
    /\ ~crashed
    /\ UNCHANGED <<units, lastKey>>
    /\ pc[t] = "rc_sensor"
    /\ weatherSensor' = args[t].sensor
    /\ IF args[t].sensor = NoHandle
         THEN Return(t, "error: sensor")
         ELSE Goto(t, "rc_led")
    /\ UNCHANGED <<ledComponent, refreshInterval, ledCancelFunc, ledUpdateCtx,
                   ledWg, ctxs, gor, nGor, crashed>>

\* s.ledComponent, err = genericComponent.FromDependencies(deps, config.LedComponent)
ReconfigureLed(t) ==
    /\ ~crashed
    /\ UNCHANGED <<units, lastKey>>
    /\ pc[t] = "rc_led"
    /\ ledComponent' = args[t].led
    /\ IF args[t].led = NoHandle
         THEN Return(t, "error: led")
         ELSE Goto(t, "rc_interval")
    /\ UNCHANGED <<weatherSensor, refreshInterval, ledCancelFunc, ledUpdateCtx,
                   ledWg, ctxs, gor, nGor, crashed>>

\* s.refreshInterval = time.Second * time.Duration(config.RefreshInterval)
ReconfigureInterval(t) ==
    /\ ~crashed
    /\ UNCHANGED <<units, lastKey>>
    /\ pc[t] = "rc_interval"
    /\ refreshInterval' = args[t].interval
    /\ Goto(t, "rc_cancel")
    /\ UNCHANGED <<weatherSensor, ledComponent, ledCancelFunc, ledUpdateCtx,
                   ledWg, ctxs, gor, nGor, crashed>>

\* if s.ledCancelFunc != nil { s.ledCancelFunc(); ... }
ReconfigureCancel(t) ==
    /\ ~crashed
    /\ UNCHANGED <<units, lastKey>>
    /\ pc[t] = "rc_cancel"
    /\ IF ledCancelFunc # Nil
         THEN /\ cancelled' = cancelled \cup {ledCancelFunc}
              /\ Goto(t, "rc_wait")
         ELSE /\ cancelled' = cancelled
              /\ Goto(t, "rc_clear")
    /\ UNCHANGED <<svc, rootCancelled, nextCtx, gor, nGor, crashed>>

\* Reconfigure that signals the cancellation and does not join
ReconfigureWait_NoJoin(t) ==
    /\ ~crashed
    /\ UNCHANGED <<units, lastKey>>
    /\ pc[t] = "rc_wait"
    /\ Goto(t, "rc_clear")
    /\ UNCHANGED <<svc, ctxs, gor, nGor, crashed>>

\* s.ledWg.Wait()
ReconfigureWait(t) ==
    /\ ~crashed
    /\ UNCHANGED <<units, lastKey>>
    /\ pc[t] = "rc_wait"
    /\ ledWg = 0
    /\ Goto(t, "rc_clear")
    /\ UNCHANGED <<svc, ctxs, gor, nGor, crashed>>

\* s.ledCancelFunc = nil; s.ledUpdateCtx = nil; s.ledWg = sync.WaitGroup{}; return nil
ReconfigureClear(t) ==
    /\ ~crashed
    /\ UNCHANGED <<units, lastKey>>
    /\ pc[t] = "rc_clear"
    /\ ledCancelFunc' = Nil
    /\ ledUpdateCtx' = Nil
    /\ ledWg' = 0
    /\ Return(t, "reconfigured")
    /\ UNCHANGED <<weatherSensor, ledComponent, refreshInterval, ctxs, gor,
                   nGor, crashed>>

\* ------------------------------------------------------------------- Close
BeginClose(t) == Begin(t, "close_root", NoArgs, NoEntry)

\* s.cancelFunc()
CloseRoot(t) ==
    /\ ~crashed
    /\ UNCHANGED <<units, lastKey>>
    /\ pc[t] = "close_root"
    /\ rootCancelled' = TRUE
    /\ Goto(t, "close_cancel")
    /\ UNCHANGED <<svc, cancelled, nextCtx, gor, nGor, crashed>>

\* if s.ledCancelFunc != nil { s.ledCancelFunc(); ... }; otherwise return nil
CloseCancel(t) ==
    /\ ~crashed
    /\ UNCHANGED <<units, lastKey>>
    /\ pc[t] = "close_cancel"
    /\ IF ledCancelFunc # Nil
         THEN /\ cancelled' = cancelled \cup {ledCancelFunc}
              /\ Goto(t, "close_wait")
         ELSE /\ cancelled' = cancelled
              /\ Return(t, "closed")
    /\ UNCHANGED <<svc, rootCancelled, nextCtx, gor, nGor, crashed>>

\* Close that signals the cancellation and does not join
CloseWait_NoJoin(t) ==
    /\ ~crashed
    /\ UNCHANGED <<units, lastKey>>
    /\ pc[t] = "close_wait"
    /\ Return(t, "closed")
    /\ UNCHANGED <<svc, ctxs, gor, nGor, crashed>>

\* s.ledWg.Wait(); return nil
CloseWait(t) ==
    /\ ~crashed
    /\ UNCHANGED <<units, lastKey>>
    /\ pc[t] = "close_wait"
    /\ ledWg = 0
    /\ Return(t, "closed")
    /\ UNCHANGED <<svc, ctxs, gor, nGor, crashed>>

\* ------------------------------------------------- the polling goroutine
\* the deferred s.ledWg.Done() (and t.Stop()) of startWeatherVizService: a
\* counter that would go negative panics
Exit(g) ==
    IF ledWg = 0
      THEN /\ crashed' = TRUE
           /\ UNCHANGED <<ledWg, gor>>
      ELSE /\ ledWg' = ledWg - 1
           /\ gor' = [gor EXCEPT ![g] = [NoGor EXCEPT !.pc = "done"]]
           /\ UNCHANGED crashed

\* GoRun, but without the call of visualizeWeather ahead of the loop
GoRun_NoFirstCycle(g) ==
    /\ ~crashed
    /\ UNCHANGED <<units, lastKey>>
    /\ gor[g].pc = "go"
    /\ gor' = [gor EXCEPT ![g] = [@ EXCEPT !.pc = "loop",
                                           !.ctx = ledUpdateCtx,
                                           !.interval = refreshInterval]]
    /\ UNCHANGED <<svc, ctxs, nGor, pc, args, resp, entry, crashed>>

\* The closure of the go statement starts to run: it reads s.ledUpdateCtx and
\* s.refreshInterval now, creates the ticker and is about to make the immediate
\* first call of visualizeWeather.
GoRun(g) ==
    /\ ~crashed
    /\ UNCHANGED <<units, lastKey>>
    /\ gor[g].pc = "go"
    /\ gor' = [gor EXCEPT ![g] = [@ EXCEPT !.pc = "visualize",
                                           !.ctx = ledUpdateCtx,
                                           !.interval = refreshInterval]]
    /\ UNCHANGED <<svc, ctxs, nGor, pc, args, resp, entry, crashed>>

\* visualizeWeather: s.weatherSensor.Readings(ctx, ...) is called on the handle
\* the field holds now; a nil handle panics
VisualizeRead(g) ==
    /\ ~crashed
    /\ UNCHANGED <<units, lastKey>>
    /\ gor[g].pc = "visualize"
    /\ IF weatherSensor = NoHandle
         THEN /\ crashed' = TRUE
              /\ UNCHANGED gor
         ELSE /\ gor' = [gor EXCEPT ![g] = [@ EXCEPT !.pc = "reading",
                                                    !.handle = weatherSensor,
                                                    !.logged = ""]]
              /\ UNCHANGED crashed
    /\ UNCHANGED <<svc, ctxs, nGor, pc, args, resp, entry>>

\* Readings returns: reading, err := ...
SensorReturn(g) ==
    /\ ~crashed
    /\ UNCHANGED <<units, lastKey>>
    /\ gor[g].pc = "reading"
    /\ \E res \in SensorResults :
         gor' = [gor EXCEPT ![g] = [@ EXCEPT !.pc = "classify",
                                            !.handle = NoHandle,
                                            !.res = res]]
    /\ UNCHANGED <<svc, ctxs, nGor, pc, args, resp, entry, crashed>>

\* Classify, but a failed sensor read is tried again at once
Classify_RetryOnError(g) ==
    /\ ~crashed
    /\ UNCHANGED <<units, lastKey>>
    /\ gor[g].pc = "classify"
    /\ gor' = [gor EXCEPT ![g] =
                 IF gor[g].res.err
                   THEN [@ EXCEPT !.pc = "visualize", !.res = NoRes,
                                  !.logged = visualizeWeatherLog(gor[g].res)]
                 ELSE IF visualizeWeatherKey(gor[g].res) = ""
                   THEN [@ EXCEPT !.pc = "loop", !.res = NoRes,
                                  !.logged = visualizeWeatherLog(gor[g].res)]
                   ELSE [@ EXCEPT !.pc = "handle", !.res = NoRes,
                                  !.key = visualizeWeatherKey(gor[g].res)]]
    /\ UNCHANGED <<svc, ctxs, nGor, pc, args, resp, entry, crashed>>

\* the rest of visualizeWeather: it logs an error and returns, or calls
\* handleWeatherCondition(ctx, condition+"/"+tempString)
Classify(g) ==
    /\ ~crashed
    /\ UNCHANGED <<units, lastKey>>
    /\ gor[g].pc = "classify"
    /\ gor' = [gor EXCEPT ![g] =
                 IF visualizeWeatherKey(gor[g].res) = ""
                   THEN [@ EXCEPT !.pc = "loop", !.res = NoRes,
                                  !.logged = visualizeWeatherLog(gor[g].res)]
                   ELSE [@ EXCEPT !.pc = "handle", !.res = NoRes,
                                  !.key = visualizeWeatherKey(gor[g].res)]]
    /\ UNCHANGED <<svc, ctxs, nGor, pc, args, resp, entry, crashed>>

\* HandleWeatherCondition, but without the lookup's exists check: whatever the
\* lookup gave is sent
HandleWeatherCondition_NoLookup(g) ==
    /\ ~crashed
    /\ UNCHANGED <<units, lastKey>>
    /\ gor[g].pc = "handle"
    /\ IF ledComponent = NoHandle
         THEN /\ crashed' = TRUE
              /\ UNCHANGED gor
         ELSE /\ gor' = [gor EXCEPT ![g] = [@ EXCEPT !.pc = "commanding",
                                                    !.handle = ledComponent]]
              /\ UNCHANGED crashed
    /\ UNCHANGED <<svc, ctxs, nGor, pc, args, resp, entry>>

\* handleWeatherCondition: a key that is not in the catalog is logged and the
\* cycle ends; otherwise s.ledComponent.DoCommand(ctx, animations) is called on
\* the handle the field holds now (a nil handle panics)
HandleWeatherCondition(g) ==
    /\ ~crashed
    /\ UNCHANGED <<units, lastKey>>
    /\ gor[g].pc = "handle"
    /\ IF ~handleWeatherConditionSends(gor[g].key)
         THEN /\ gor' = [gor EXCEPT ![g] =
                           [@ EXCEPT !.pc = "loop", !.key = "",
                                     !.logged = "no animations found for condition"]]
              /\ UNCHANGED crashed
         ELSE IF ledComponent = NoHandle
           THEN /\ crashed' = TRUE
                /\ UNCHANGED gor
           ELSE /\ gor' = [gor EXCEPT ![g] = [@ EXCEPT !.pc = "commanding",
                                                      !.handle = ledComponent]]
                /\ UNCHANGED crashed
    /\ UNCHANGED <<svc, ctxs, nGor, pc, args, resp, entry>>

\* ActuatorReturn, but an error of the actuator is returned up to the loop, which
\* gives up
ActuatorReturn_ExitOnError(g) ==
    /\ ~crashed
    /\ UNCHANGED <<units, lastKey>>
    /\ gor[g].pc = "commanding"
    /\ \E err \in BOOLEAN :
         IF err
           THEN Exit(g)
           ELSE /\ gor' = [gor EXCEPT ![g] =
                             [@ EXCEPT !.pc = "loop", !.handle = NoHandle,
                                       !.key = "",
                                       !.logged = "led colors set for condition"]]
                /\ UNCHANGED <<ledWg, crashed>>
    /\ UNCHANGED <<weatherSensor, ledComponent, refreshInterval, ledCancelFunc,
                   ledUpdateCtx, ctxs, nGor, pc, args, resp, entry>>

\* the actuator's DoCommand returns, with or without an error: either is logged
\* and the cycle ends
ActuatorReturn(g) ==
    /\ ~crashed
    /\ UNCHANGED <<units, lastKey>>
    /\ gor[g].pc = "commanding"
    /\ \E err \in BOOLEAN :
         gor' = [gor EXCEPT ![g] =
                   [@ EXCEPT !.pc = "loop", !.handle = NoHandle, !.key = "",
                             !.logged = IF err THEN "error setting led colors"
                                               ELSE "led colors set for condition"]]
    /\ UNCHANGED <<svc, ctxs, nGor, pc, args, resp, entry, crashed>>

\* if err := ctx.Err(); err != nil { return }: a nil context panics
LoopCheck(g) ==
    /\ ~crashed
    /\ UNCHANGED <<units, lastKey>>
    /\ gor[g].pc = "loop"
    /\ IF gor[g].ctx = Nil
         THEN /\ crashed' = TRUE
              /\ UNCHANGED <<ledWg, gor>>
         ELSE IF CtxDone(gor[g].ctx)
           THEN Exit(g)
           ELSE /\ gor' = [gor EXCEPT ![g] = [@ EXCEPT !.pc = "select"]]
                /\ UNCHANGED <<ledWg, crashed>>
    /\ UNCHANGED <<weatherSensor, ledComponent, refreshInterval, ledCancelFunc,
                   ledUpdateCtx, ctxs, nGor, pc, args, resp, entry>>

\* select: case <-ctx.Done(): return
SelectDone(g) ==
    /\ ~crashed
    /\ UNCHANGED <<units, lastKey>>
    /\ gor[g].pc = "select"
    /\ CtxDone(gor[g].ctx)
    /\ Exit(g)
    /\ UNCHANGED <<weatherSensor, ledComponent, refreshInterval, ledCancelFunc,
                   ledUpdateCtx, ctxs, nGor, pc, args, resp, entry>>

\* select: case <-t.C: s.visualizeWeather(ctx). The ticker may have a tick ready
\* whenever the goroutine is at the select, also when the context is done: Go
\* picks among the ready cases at random.
SelectTick(g) ==
    /\ ~crashed
    /\ UNCHANGED <<units, lastKey>>
    /\ gor[g].pc = "select"
    /\ gor' = [gor EXCEPT ![g] = [@ EXCEPT !.pc = "visualize"]]
    /\ UNCHANGED <<svc, ctxs, nGor, pc, args, resp, entry, crashed>>

\* ------------------------------------------------------------ specification
CallerStep(t) ==
    \/ BeginStart(t) \/ StartCheck(t) \/ StartCtx(t) \/ StartAdd(t) \/ StartGo(t)
    \/ BeginStop(t) \/ StopCheck(t) \/ StopCancel(t) \/ StopWait(t) \/ StopClear(t)
    \/ DoCommandOther(t)
    \/ BeginReconfigure(t) \/ ReconfigureConfig(t) \/ ReconfigureSensor(t)
    \/ ReconfigureLed(t) \/ ReconfigureInterval(t) \/ ReconfigureCancel(t)
    \/ ReconfigureWait(t) \/ ReconfigureClear(t)
    \/ BeginClose(t) \/ CloseRoot(t) \/ CloseCancel(t) \/ CloseWait(t)

GoroutineStep(g) ==
    \/ GoRun(g) \/ VisualizeRead(g) \/ SensorReturn(g) \/ Classify(g)
    \/ HandleWeatherCondition(g) \/ ActuatorReturn(g)
    \/ LoopCheck(g) \/ SelectDone(g) \/ SelectTick(g)

\* the thread that issues the control calls one at a time
SeqThreads == {1}

\* control calls one at a time, the polling goroutine running beside them
Next ==
    \/ \E t \in SeqThreads : CallerStep(t)
    \/ \E g \in Gids : GoroutineStep(g)

Spec == Init /\ [][Next]_vars

\* a step of a DoCommand {state: start} or {state: stop} call
StartStopStep(t) ==
    \/ BeginStart(t) \/ StartCheck(t) \/ StartCtx(t) \/ StartAdd(t) \/ StartGo(t)
    \/ BeginStop(t) \/ StopCheck(t) \/ StopCancel(t) \/ StopWait(t) \/ StopClear(t)

\* start and stop calls of several threads overlapping: DoCommand takes no lock
NextConc ==
    \/ \E t \in Threads : StartStopStep(t)
    \/ \E g \in Gids : GoroutineStep(g)

SpecConc == Init /\ [][NextConc]_vars

\* ---------------------------------------------------------------- fairness
\* a step of a control call in progress on thread t
CallProgress(t) ==
    \/ StartCheck(t) \/ StartCtx(t) \/ StartAdd(t) \/ StartGo(t)
    \/ StopCheck(t) \/ StopCancel(t) \/ StopWait(t) \/ StopClear(t)
    \/ ReconfigureConfig(t) \/ ReconfigureSensor(t) \/ ReconfigureLed(t)
    \/ ReconfigureInterval(t) \/ ReconfigureCancel(t) \/ ReconfigureWait(t)
    \/ ReconfigureClear(t)
    \/ CloseRoot(t) \/ CloseCancel(t) \/ CloseWait(t)

\* The Go scheduler runs every goroutine that can take a step and every call in
\* progress; a sensor read or an actuator command in flight returns. A loop
\* whose context is done leaves at its next context check, whatever the select
\* picked.
Fairness ==
    /\ \A g \in Gids : WF_vars(GoroutineStep(g))
    /\ \A t \in SeqThreads : WF_vars(CallProgress(t))

\* Spec, fairly scheduled
SpecFair == Spec /\ Fairness

\* ------------------------------------------------- cycles with a history
\* Classify, with the history: a cycle that ends without a classification has
\* no key
ClassifyTracked(g) ==
    /\ ~crashed
    /\ UNCHANGED units
    /\ gor[g].pc = "classify"
    /\ gor' = [gor EXCEPT ![g] =
                 IF visualizeWeatherKey(gor[g].res) = ""
                   THEN [@ EXCEPT !.pc = "loop", !.res = NoRes,
                                  !.logged = visualizeWeatherLog(gor[g].res)]
                   ELSE [@ EXCEPT !.pc = "handle", !.res = NoRes,
                                  !.key = visualizeWeatherKey(gor[g].res)]]
    /\ lastKey' = IF visualizeWeatherKey(gor[g].res) = ""
                    THEN [lastKey EXCEPT ![g] = ""]
                    ELSE lastKey
    /\ UNCHANGED <<svc, ctxs, nGor, pc, args, resp, entry, crashed>>

\* HandleWeatherCondition, with the history: the key it was given is remembered
\* as the key of the loop's previous cycle
HandleWeatherConditionTracked(g) ==
    /\ ~crashed
    /\ UNCHANGED units
    /\ gor[g].pc = "handle"
    /\ IF ~handleWeatherConditionSends(gor[g].key)
         THEN /\ gor' = [gor EXCEPT ![g] =
                           [@ EXCEPT !.pc = "loop", !.key = "",
                                     !.logged = "no animations found for condition"]]
              /\ lastKey' = [lastKey EXCEPT ![g] = gor[g].key]
              /\ UNCHANGED crashed
         ELSE IF ledComponent = NoHandle
           THEN /\ crashed' = TRUE
                /\ UNCHANGED <<gor, lastKey>>
           ELSE /\ gor' = [gor EXCEPT ![g] = [@ EXCEPT !.pc = "commanding",
                                                      !.handle = ledComponent]]
                /\ lastKey' = [lastKey EXCEPT ![g] = gor[g].key]
                /\ UNCHANGED crashed
    /\ UNCHANGED <<svc, ctxs, nGor, pc, args, resp, entry>>

\* a step of the polling goroutine, the history kept
CycleStep(g) ==
    \/ GoRun(g) \/ VisualizeRead(g) \/ SensorReturn(g) \/ ClassifyTracked(g)
    \/ HandleWeatherConditionTracked(g) \/ ActuatorReturn(g)
    \/ LoopCheck(g) \/ SelectDone(g) \/ SelectTick(g)

\* start and stop calls one at a time, the polling goroutine running beside them
NextCycles ==
    \/ \E t \in SeqThreads : StartStopStep(t)
    \/ \E g \in Gids : CycleStep(g)

SpecCycles == Init /\ [][NextCycles]_vars

\* ------------------------------------------------------- units on their own
\* everything of the service
service == <<svc, ctxs, gor, nGor, pc, args, resp, entry, crashed, lastKey>>

\* cfg.Validate(path) is called on the configuration
ValidateCall ==
    /\ ~validation.called
    /\ validation' = [validation EXCEPT !.called = TRUE,
                                        !.err = Validate(validation.cfg)]
    /\ UNCHANGED <<service, weatherviz, animationList>>

InitValidate ==
    /\ ServiceInit
    /\ validation \in {[cfg |-> c, called |-> FALSE, err |-> "nil"] : c \in Configs}
    /\ weatherviz = NoViz
    /\ animationList = NoList

SpecValidate == InitValidate /\ [][ValidateCall]_vars

\* weatherviz DoCommand: without the key "visualize" it returns an error; with it
\* visualize is entered and calls s.weatherSensor.Readings
VizDoCommand ==
    /\ weatherviz.pc = "idle"
    /\ \E cmd \in Cmds :
         weatherviz' =
            IF "visualize" \notin cmd
              THEN [NoViz EXCEPT !.cmd = cmd, !.err = "invalid command"]
              ELSE [NoViz EXCEPT !.cmd = cmd, !.pc = "reading", !.reads = 1]
    /\ UNCHANGED <<service, validation, animationList>>

\* VizSensorReturn, but without the check of the code
VizSensorReturn_NoCodeCheck ==
    /\ weatherviz.pc = "reading"
    /\ \E res \in SensorResults :
         weatherviz' =
            IF res.err
              THEN [weatherviz EXCEPT !.pc = "idle", !.readings = res,
                                      !.err = "sensor error"]
            ELSE IF "sunny/hot" \notin DOMAIN animationMap
              THEN [weatherviz EXCEPT !.pc = "idle", !.readings = res,
                                      !.err = "animation not found"]
            ELSE [weatherviz EXCEPT !.pc = "commanding", !.readings = res,
                                    !.commands = @ + 1, !.sent = "sunny/hot"]
    /\ UNCHANGED <<service, validation, animationList>>

\* visualize from the return of Readings to its actuator call: the sensor's
\* error is returned; a code that is absent or not a float64 is "code not
\* found"; else the "sunny/hot" entry of animationMap is looked up and sent
VizSensorReturn ==
    /\ weatherviz.pc = "reading"
    /\ \E res \in SensorResults :
         weatherviz' =
            IF res.err
              THEN [weatherviz EXCEPT !.pc = "idle", !.readings = res,
                                      !.err = "sensor error"]
            ELSE IF res.reading.code.kind # "float"
              THEN [weatherviz EXCEPT !.pc = "idle", !.readings = res,
                                      !.err = "code not found"]
            ELSE IF "sunny/hot" \notin DOMAIN animationMap
              THEN [weatherviz EXCEPT !.pc = "idle", !.readings = res,
                                      !.err = "animation not found"]
            ELSE [weatherviz EXCEPT !.pc = "commanding", !.readings = res,
                                    !.commands = @ + 1, !.sent = "sunny/hot"]
    /\ UNCHANGED <<service, validation, animationList>>

\* _, err = s.ledComponent.DoCommand(ctx, animation); return err
VizActuatorReturn ==
    /\ weatherviz.pc = "commanding"
    /\ \E err \in BOOLEAN :
         weatherviz' = [weatherviz EXCEPT
                           !.pc = "idle",
                           !.err = IF err THEN "actuator error" ELSE "nil"]
    /\ UNCHANGED <<service, validation, animationList>>

NextWeatherviz == VizDoCommand \/ VizSensorReturn \/ VizActuatorReturn

SpecWeatherviz == Init /\ [][NextWeatherviz]_vars

\* NextAnimation, but the index is reset one call late
NextAnimation_LateWrap ==
    /\ animationList.calls < MaxCalls
    /\ ~animationList.panicked
    /\ animationList' =
          IF animationList.index >= Len(animationList.Animations)
            THEN [animationList EXCEPT !.panicked = TRUE]
            ELSE [animationList EXCEPT
                     !.returned = animationList.Animations[animationList.index + 1],
                     !.index = IF animationList.index + 1 >
                                     Len(animationList.Animations)
                                 THEN 0 ELSE animationList.index + 1,
                     !.calls = @ + 1]
    /\ UNCHANGED <<service, validation, weatherviz>>

\* NextAnimation: the step at index is returned and index moves on, back to 0
\* past the last step; indexing an empty list panics
NextAnimation ==
    /\ animationList.calls < MaxCalls
    /\ ~animationList.panicked
    /\ animationList' =
          IF animationList.index >= Len(animationList.Animations)
            THEN [animationList EXCEPT !.panicked = TRUE]
            ELSE [animationList EXCEPT
                     !.returned = animationList.Animations[animationList.index + 1],
                     !.index = IF animationList.index + 1 >=
                                     Len(animationList.Animations)
                                 THEN 0 ELSE animationList.index + 1,
                     !.calls = @ + 1]
    /\ UNCHANGED <<service, validation, weatherviz>>

InitAnimation ==
    /\ ServiceInit
    /\ validation = NoValidation
    /\ weatherviz = NoViz
    /\ animationList \in {[NoList EXCEPT !.Animations = a] : a \in AnimationLists}

SpecAnimation == InitAnimation /\ [][NextAnimation]_vars

\* ------------------------------------------------------------------ claims
NoLive == LiveGoroutines = {}

\* thread t's call returns r in this step
Returns(t, r) == pc[t] # "idle" /\ pc'[t] = "idle" /\ resp'[t] = r

\* goroutine g issues a sensor read or an actuator command in this step
IssuesCall(g) ==
    /\ gor'[g].pc \in {"reading", "commanding"}
    /\ gor'[g].pc # gor[g].pc

\* a start call executes its go statement in this step
StartLaunches == \E t \in Threads : pc[t] = "start_go" /\ pc'[t] = "idle"

\* C1: when a stop that found a session returns "stopped", no polling goroutine
\* is live, and from a state without a live goroutine no sensor read and no
\* actuator command is issued and no goroutine becomes live until a start
\* executes its go statement.
C1_StopJoinsLoop ==
    /\ [](\A t \in Threads : pc[t] = "idle" /\ resp[t] = "stopped" => NoLive)
    /\ [][/\ \A t \in Threads : Returns(t, "stopped") => NoLive'
          /\ NoLive /\ ~StartLaunches =>
                NoLive' /\ \A g \in Gids : ~IssuesCall(g)]_vars

\* a stop has returned "stopped" after a polling goroutine it joined had run
C1_Witness ==
    /\ pc[1] = "idle" /\ resp[1] = "stopped"
    /\ gor[1].pc = "done" /\ 1 \in cancelled /\ ~rootCancelled

\* C2: a start that finds the session handle set returns "already running" and
\* changes nothing: the handle, the context, the WaitGroup, the contexts and the
\* goroutines are what they were, and at most one polling goroutine is live.
C2_StartTwiceNoEffect ==
    [][\A t \in Threads :
          pc[t] = "start_check" /\ ledCancelFunc # Nil /\ pc'[t] # pc[t] =>
             /\ Returns(t, "already running")
             /\ UNCHANGED <<svc, ctxs, gor, nGor, crashed>>
             /\ ledCancelFunc' # Nil
             /\ Cardinality(LiveGoroutines') <= 1]_vars

\* a start has answered "already running" while the one polling goroutine runs
C2_Witness ==
    /\ pc[1] = "idle" /\ resp[1] = "already running"
    /\ Cardinality(LiveGoroutines) = 1 /\ nGor = 1

\* C3: with start and stop calls overlapping, at most one polling goroutine is
\* live, and every live goroutine is still reachable for cancellation: its
\* context is done or is the one the session's cancel function cancels.
C3_AtMostOneLoop ==
    /\ Cardinality(LiveGoroutines) <= 1
    /\ \A g \in Gids :
          Live(g) /\ gor[g].pc # "go" /\ gor[g].ctx # Nil =>
             CtxDone(gor[g].ctx) \/ gor[g].ctx = ledCancelFunc

\* C4: the sensor handle, the actuator handle and the interval are replaced only
\* when no polling goroutine is live.
C4_StopBeforeSwap ==
    [][(\/ weatherSensor' # weatherSensor
        \/ ledComponent' # ledComponent
        \/ refreshInterval' # refreshInterval) => NoLive]_vars

RcPcs == {"rc_config", "rc_sensor", "rc_led", "rc_interval", "rc_cancel",
          "rc_wait", "rc_clear"}
RcErrors == {"error: config", "error: sensor", "error: led"}

\* C5: when a Reconfigure returns an error, the sensor handle, the actuator
\* handle, the interval and the session handle are what they were when the call
\* began.
C5_FailedReconfigureNoChange ==
    [][\A t \in Threads :
          pc[t] \in RcPcs /\ pc'[t] = "idle" /\ resp'[t] \in RcErrors =>
             Snapshot' = entry[t]]_vars

\* C6: when a Reconfigure returns without error, the fields hold what it was
\* given, the session handle is cleared and no polling goroutine is live; and
\* once a start has launched a loop (no other call begun since), every call the
\* loop has in flight is on the current sensor or actuator and its ticker has the
\* current interval.
C6_ReconfigureThenStart ==
    /\ [](\A t \in Threads :
            pc[t] = "idle" /\ resp[t] = "reconfigured" =>
               ledCancelFunc = Nil /\ ledUpdateCtx = Nil /\ NoLive)
    /\ [](\A t \in Threads :
            pc[t] = "idle" /\ resp[t] = "started" =>
               \A g \in Gids :
                  /\ gor[g].pc = "reading" => gor[g].handle = weatherSensor
                  /\ gor[g].pc = "commanding" => gor[g].handle = ledComponent
                  /\ Live(g) /\ gor[g].pc # "go" =>
                        gor[g].interval = refreshInterval)
    /\ [][\A t \in Threads :
            Returns(t, "reconfigured") =>
               /\ weatherSensor' = args[t].sensor
               /\ ledComponent' = args[t].led
               /\ refreshInterval' = args[t].interval
               /\ NoLive']_vars

\* after a session on the first sensor was torn down and the service given the
\* other sensor, actuator and interval, a start has launched a loop that reads
\* the new sensor
C6_Witness ==
    /\ pc[1] = "idle" /\ resp[1] = "started" /\ ~rootCancelled
    /\ gor[1].pc = "done"
    /\ gor[2].pc = "reading" /\ gor[2].handle = "sensorB"
    /\ gor[2].interval = 2 /\ ledComponent = "ledB"

ClosePcs == {"close_root", "close_cancel", "close_wait"}

C9_KeyInCatalog ==
    \A g \in Gids : gor[g].pc = "handle" => gor[g].key \in DOMAIN animationMap

\* the reading lacks the code or the temperature, or holds one with another type
Malformed(res) ==
    /\ ~res.err
    /\ res.reading.code.kind # "float" \/ res.reading.outside_f.kind # "float"

\* C10: a cycle whose reading is malformed goes on to handleWeatherCondition with
\* a key of the catalog, so that the key's program is sent.
C10_MalformedFallsBack ==
    [][\A g \in Gids :
          gor[g].pc = "classify" /\ Malformed(gor[g].res) /\ gor'[g].pc # "classify" =>
             gor'[g].pc = "handle" /\ gor'[g].key \in DOMAIN animationMap]_vars


\* the reading holds a float64 code and a float64 temperature
WellFormed(res) ==
    /\ ~res.err
    /\ res.reading.code.kind = "float" /\ res.reading.outside_f.kind = "float"

\* the bucket C11 gives a temperature: hot from 65 up, cold from 33 down
C11_Bucket(v) == IF v >= 65 THEN "hot" ELSE IF v <= 33 THEN "cold" ELSE "moderate"

\* C11: a cycle with a well-formed reading hands handleWeatherCondition the sky
\* state of the code joined with the bucket of the temperature: "hot" at or above
\* 65, "cold" at or below 33, "moderate" between; code 1000 at 70 degrees gives
\* "sunny/hot".
C11_TemperatureBucket ==
    [][\A g \in Gids :
          gor[g].pc = "classify" /\ WellFormed(gor[g].res) /\ gor'[g].pc # "classify" =>
             /\ gor'[g].pc = "handle"
             /\ gor'[g].key = getCondition(gor[g].res.reading.code.val) \o "/" \o
                                C11_Bucket(gor[g].res.reading.outside_f.val)]_vars

ReadFailed == "error reading weather sensor"

\* C12: a cycle whose sensor read failed logs it and ends with the loop live and
\* no actuator command issued; after it the goroutine only checks its context,
\* waits at the select, exits on cancellation or receives a tick, and the cycle
\* the tick begins issues a sensor read on the current handle.
C12_ReadFailureSkipsCycle ==
    [][\A g \in Gids :
          /\ gor[g].pc = "classify" /\ gor[g].res.err /\ gor'[g] # gor[g] =>
                /\ gor'[g].pc = "loop" /\ gor'[g].logged = ReadFailed
                /\ Live(g)'
          /\ gor[g].logged = ReadFailed /\ gor'[g] # gor[g] =>
                \/ gor[g].pc = "loop" /\ gor'[g].pc = "select"
                \/ /\ gor[g].pc \in {"loop", "select"} /\ CtxDone(gor[g].ctx)
                   /\ gor'[g].pc = "done"
                \/ /\ gor[g].pc = "select" /\ gor'[g].pc = "visualize"
                   /\ gor'[g].logged = ReadFailed
                \/ /\ gor[g].pc = "visualize" /\ gor'[g].pc = "reading"
                   /\ gor'[g].handle = weatherSensor]_vars

\* after a cycle whose sensor read failed the loop has received the next tick
C12_Witness ==
    /\ gor[1].pc = "visualize" /\ gor[1].logged = ReadFailed
    /\ ~CtxDone(gor[1].ctx) /\ ~crashed

\* the positions of a goroutine inside a call of visualizeWeather
CyclePcs == {"visualize", "reading", "classify", "handle", "commanding"}

\* C13: the first step of a launched goroutine begins a cycle, before any tick;
\* a cycle is begun only there or by a tick received at the select; a cycle runs
\* from its sensor read to its end without the goroutine being at the select, so
\* the next tick is received only after the cycle finished; the goroutine exits
\* only from the context check or the select, with its context done, and begins
\* no cycle afterwards.
C13_OneCyclePerTick ==
    [][\A g \in Gids :
          gor'[g].pc # gor[g].pc =>
             /\ gor[g].pc = "go" => gor'[g].pc = "visualize"
             /\ gor'[g].pc = "visualize" => gor[g].pc \in {"go", "select"}
             /\ gor[g].pc = "visualize" => gor'[g].pc = "reading"
             /\ gor[g].pc = "reading" => gor'[g].pc = "classify"
             /\ gor[g].pc = "classify" => gor'[g].pc \in {"handle", "loop"}
             /\ gor[g].pc = "handle" => gor'[g].pc \in {"commanding", "loop"}
             /\ gor[g].pc = "commanding" => gor'[g].pc = "loop"
             /\ gor[g].pc = "loop" => gor'[g].pc \in {"select", "done"}
             /\ gor[g].pc = "select" => gor'[g].pc \in {"visualize", "done"}
             /\ gor'[g].pc = "done" =>
                   gor[g].pc \in {"loop", "select"} /\ CtxDone(gor[g].ctx)
             /\ gor[g].pc # "done"]_vars

\* a loop has finished its immediate cycle with a command sent and has received
\* a tick, which begins its second cycle; its context is not cancelled
C13_Witness ==
    /\ gor[1].pc = "visualize" /\ gor[1].logged = "led colors set for condition"
    /\ ~CtxDone(gor[1].ctx) /\ ~crashed

\* C14: a goroutine begins a cycle, the immediate first one or one on a tick,
\* only while its context is not cancelled.
C14_NoCycleAfterCancel ==
    [][\A g \in Gids :
          gor'[g].pc = "visualize" /\ gor[g].pc # "visualize" =>
             ~CtxDone(gor'[g].ctx)]_vars

\* the goroutines with an actuator DoCommand in flight
Commanding == {g \in Gids : gor[g].pc = "commanding"}

\* C15: at most one actuator DoCommand issued by the service is in flight.
C15_OneCommandInFlight == Cardinality(Commanding) <= 1

\* the lines a cycle logs when it ends on an error
ErrorLogs ==
    {"error reading weather sensor",
     "no condition reading from weather sensor",
     "code reading from weather sensor is not a float",
     "no outside temperature reading from weather sensor",
     "outside temperature reading from weather sensor is not a float",
     "no animations found for condition",
     "error setting led colors"}

\* C16: a cycle that ends on an error (a failed actuator command, a failed sensor
\* read, a reading that cannot be classified, an unknown key) leaves the
\* goroutine live at the context check; from there it goes to the select and a
\* tick begins the next cycle; and a goroutine exits only when its context is
\* done. (A nil handle or a nil context is a panic of the process, not an error
\* of this kind.)
C16_ErrorsKeepLoopAlive ==
    [][\A g \in Gids :
          gor'[g] # gor[g] =>
             /\ gor'[g].logged \in ErrorLogs /\ gor[g].logged \notin ErrorLogs =>
                   gor'[g].pc = "loop" /\ Live(g)'
             /\ gor[g].pc = "commanding" =>
                   /\ gor'[g].pc = "loop"
                   /\ gor'[g].logged \in {"error setting led colors",
                                          "led colors set for condition"}
             /\ gor[g].logged \in ErrorLogs =>
                   /\ gor[g].pc \in {"loop", "select", "visualize"}
                   /\ gor'[g].pc = "done" => CtxDone(gor[g].ctx)
                   /\ gor[g].pc = "loop" /\ ~CtxDone(gor[g].ctx) =>
                         gor'[g].pc = "select"
                   /\ gor[g].pc = "select" /\ ~CtxDone(gor[g].ctx) =>
                         gor'[g].pc = "visualize"
             /\ gor'[g].pc = "done" => CtxDone(gor[g].ctx)]_vars

\* after a cycle whose actuator command failed the loop has received the next
\* tick, its context not cancelled
C16_Witness ==
    /\ gor[1].pc = "visualize" /\ gor[1].logged = "error setting led colors"
    /\ ~CtxDone(gor[1].ctx) /\ ~crashed

\* goroutine g is in handleWeatherCondition with a key that is not in the catalog
UnknownKey(g) == gor[g].pc = "handle" /\ gor[g].key \notin DOMAIN animationMap

\* C17: the step of handleWeatherCondition on a key that is not in animationMap
\* issues no actuator command, leaves the service fields, the contexts, the
\* other goroutines and the callers as they were and returns to the loop's
\* context check with the goroutine live; and a step panics only when a stop is
\* at its cancel call or a goroutine is at its sensor read, at its context
\* check, at the select or in handleWeatherCondition with a key of the catalog.
C17_UnknownKeyNoEffect ==
    [][/\ \A g \in Gids :
             UnknownKey(g) /\ gor'[g] # gor[g] =>
                /\ gor'[g].pc = "loop" /\ Live(g)'
                /\ gor'[g].handle = NoHandle
                /\ gor'[g].logged = "no animations found for condition"
                /\ \A h \in Gids \ {g} : gor'[h] = gor[h]
                /\ UNCHANGED <<svc, ctxs, nGor, pc, args, resp, entry, crashed>>
       /\ crashed' /\ ~crashed =>
             \/ \E t \in Threads : pc[t] = "stop_cancel"
             \/ \E g \in Gids :
                   \/ gor[g].pc \in {"visualize", "loop", "select"}
                   \/ gor[g].pc = "handle" /\ ~UnknownKey(g)]_vars

\* a cycle has ended on a key that is not in the catalog while the actuator
\* handle is nil, and the loop goes on
C17_Witness ==
    /\ gor[1].pc = "select" /\ gor[1].logged = "no animations found for condition"
    /\ ledComponent = NoHandle /\ ~crashed

\* C18: Validate returns an error exactly for the configurations whose interval
\* is not positive or whose sensor or actuator name is empty.
C18_ValidateRejectsInvalid ==
    validation.called =>
       (validation.err = "nil" <=>
           /\ validation.cfg.RefreshInterval > 0
           /\ validation.cfg.WeatherSensor # ""
           /\ validation.cfg.LedComponent # "")

\* a DoCommand of the weatherviz model has returned
VizReturned == weatherviz.pc = "idle" /\ weatherviz.err # "none"

\* C19: a weatherviz DoCommand without the key "visualize" returns "invalid
\* command" having read no sensor and commanded no actuator; with the key it
\* reads the sensor once, and when the read succeeded with a float64 code it has
\* issued exactly one actuator command, while on a failed read or a missing or
\* non-numeric code it returns an error with no actuator command issued.
C19_VisualizeOnly ==
    /\ weatherviz.reads <= 1 /\ weatherviz.commands <= 1
    /\ weatherviz.pc = "commanding" => weatherviz.commands = 1
    /\ VizReturned /\ "visualize" \notin weatherviz.cmd =>
          /\ weatherviz.err = "invalid command"
          /\ weatherviz.reads = 0 /\ weatherviz.commands = 0
    /\ VizReturned /\ "visualize" \in weatherviz.cmd =>
          /\ weatherviz.reads = 1
          /\ IF ~weatherviz.readings.err
                /\ weatherviz.readings.reading.code.kind = "float"
               THEN weatherviz.commands = 1 /\ weatherviz.sent = "sunny/hot"
               ELSE weatherviz.commands = 0 /\ weatherviz.err # "nil"

\* a {visualize} command has returned without error after one sensor read and
\* one actuator command
C19_Witness ==
    /\ VizReturned /\ weatherviz.cmd = {"visualize"}
    /\ weatherviz.reads = 1 /\ weatherviz.commands = 1 /\ weatherviz.err = "nil"

\* C20: on a non-empty AnimationList no call panics, the index stays in 0..n-1
\* and is the number of calls made modulo n, and the k-th call (k from 0)
\* returned Animations[k mod n].
C20_NextAnimationCycles ==
    LET n == Len(animationList.Animations)
        k == animationList.calls - 1
    IN  n > 0 =>
          /\ ~animationList.panicked
          /\ animationList.index \in 0..(n - 1)
          /\ animationList.index = animationList.calls % n
          /\ animationList.calls > 0 =>
                animationList.returned = animationList.Animations[(k % n) + 1]

\* the fourth call on a list of three different steps has returned the first
\* step again
C20_Witness ==
    /\ animationList.Animations = <<"step0", "step1", "step2">>
    /\ animationList.calls = 4 /\ animationList.returned = "step0"
    /\ animationList.index = 1

\* C21: a cycle sends the animation command only when its key differs from the
\* key of the loop's previous cycle (the first cycle of a session has no
\* previous key).
C21_SendOnlyOnChange ==
    [][\A g \in Gids :
          gor[g].pc = "handle" /\ gor'[g].pc = "commanding" =>
             gor[g].key # lastKey[g]]_vars

\* C22: with the goroutines and the calls in progress fairly scheduled, every
\* control call that has begun eventually returns.
C22_ControlCallsReturn ==
    \A t \in SeqThreads : (pc[t] # "idle") ~> (pc[t] = "idle")

\* no control call is in progress
Quiescent == \A t \in Threads : pc[t] = "idle"

\* C23: whenever no control call is in progress, the session handle is set
\* exactly when a polling goroutine is live.
C23_HandleIffLoopLive ==
    Quiescent => (ledCancelFunc # Nil <=> LiveGoroutines # {})

\* C24: a DoCommand that is neither a start nor a stop answers with the empty
\* status and changes nothing else: the fields, the WaitGroup, the contexts and
\* the goroutines are what they were, so no loop is launched or cancelled and
\* no sensor read or actuator command is issued.
C24_OtherCommandNoEffect ==
    [][\A t \in Threads :
          pc[t] = "idle" /\ resp'[t] # resp[t] =>
             /\ resp'[t] = "empty"
             /\ UNCHANGED <<svc, ctxs, gor, nGor, crashed, pc, args, entry>>
             /\ \A g \in Gids : ~IssuesCall(g)]_vars

\* a command that is neither start nor stop has been answered while the polling
\* loop of the session waits at its select, the session still in place
C24_Witness ==
    /\ pc[1] = "idle" /\ resp[1] = "empty"
    /\ gor[1].pc = "select" /\ ledCancelFunc = 1 /\ ~CtxDone(1) /\ ledWg = 1

=============================================================================
